---- MODULE Spec2Model ----
(***************************************************************************)
(* Model of the Poly-Mind ingestion pipeline: the checkpointed scanner     *)
(* PolymarketIndexer.run_indexer (src/src/indexer/run.py), the database     *)
(* tables it reads and writes (src/src/db/schema.py) and the receipt        *)
(* decoder it calls (src/src/trade_decoder.py).                            *)
(*                                                                         *)
(* The program is modelled as a call stack of run_indexer frames (the      *)
(* continuous loop calls run_indexer recursively), each with its own       *)
(* position and locals, running against the chain (height, logs) and the   *)
(* SQLite file (sync_state row, events rows).  A second specification,     *)
(* DecodeSpec, follows the decode, enrich and store steps of one batch on  *)
(* the payloads of the logs of a receipt.  The components beside the       *)
(* pipeline have a specification each: ApiWsSpec and McpWsSpec (the two    *)
(* WebSocket managers, src/src/api/websocket_manager.py and                *)
(* src/src/mcp/websocket.py), CacheSpec (the CacheManager in fallback      *)
(* mode, src/src/cache/redis_cache.py) and DeriveSpec (position-id         *)
(* derivation, src/src/ctf/derive.py and src/src/market_decoder.py).       *)
(***************************************************************************)
EXTENDS Integers, Sequences, FiniteSets, TLC

(* ----------------------------- bounds --------------------------------- *)
MaxRuns == 2        \* process starts (first start + restarts)
MaxFaults == 1      \* injected RPC / storage failures per behaviour
MaxBatches == 2     \* chain heights reach MaxBatches * BATCH_SIZE + 1

(* ------------------------ program constants --------------------------- *)
BATCH_SIZE == 1000
FIRST_RUN_OFFSET == 1000
None == 0 - 1       \* Python None / an unbound local

CTF_EXCHANGE == "0x4bFb41d5B3570DeFd03C39a9A4D8dE6Bd8B8982E"
NEG_RISK_EXCHANGE == "0xC5d563A36AE78145C45a50134d48A1215220f80a"
event_topic == "0xb1c9d926dde9f4e10e6e183ccff5b35e41541a1e7b7ed7e7873e6e550fdb68a1"

Min(a, b) == IF a < b THEN a ELSE b
Max(a, b) == IF a > b THEN a ELSE b

(* Columns of sync_state as init_db creates the table, and the columns the *)
(* indexer's two statements name.  CREATE TABLE IF NOT EXISTS keeps a      *)
(* table that is already in the file (init_db adds missing columns to      *)
(* markets and trades only), so the file decides which it is: a table as   *)
(* init_db makes it, on which both statements fail, or one with the        *)
(* columns the statements were written for.                                *)
InitDbSyncStateColumns == {"id", "last_block", "last_update"}
SelectSyncStateColumns == {"last_block", "total_events"}
UpsertSyncStateColumns == {"id", "last_block", "total_events", "last_updated"}
IndexerSyncStateColumns == SelectSyncStateColumns \cup UpsertSyncStateColumns

(* Columns of events as init_db creates it, and those store_trades names.  *)
InitDbEventsColumns == {"id", "event_id", "title", "slug", "created_at"}
InsertEventsColumns ==
    {"tx_hash", "event_type", "maker", "taker", "asset_yes", "asset_no",
     "size", "price", "block_number", "timestamp", "raw_data"}

(* Chain heights considered: each multiple of BATCH_SIZE and the block     *)
(* after it.                                                               *)
Heights ==
    UNION { { k * BATCH_SIZE, k * BATCH_SIZE + 1 } : k \in 1..MaxBatches }

VARIABLES
    height,             \* chain: latest block number
    faultsLeft,         \* environment: failures still to be injected
    sync_state_columns, \* db: columns of table sync_state in the file
    sync_state,         \* db: the row id = 1 of sync_state, or NoRow
    events,             \* db: committed rows of table events
    proc,               \* process: "idle", "running", "exit0", "exit1", "killed"
    runs,               \* number of process starts so far
    stack,              \* call stack of run_indexer frames, top is last
    args,               \* command line of the process: from, to, continuous
    result,             \* outcome of the outermost run_indexer call
    batches,            \* history: the batch turns of this process, in order
    rerun,              \* history: whether this process repeats the last one
    markets,            \* db: rows of table markets
    tx_receipt,         \* decoder: logs of the receipt being decoded
    next_log,           \* decoder: position of decode_tx_logs in the receipt
    decoded,            \* decoder: the trades list of the batch so far
    dpc                 \* decoder: "off", "decode", "store", "done"

(* The api WebSocketManager (src/src/api/websocket_manager.py).            *)
VARIABLES
    clients,            \* api ws: client id -> WebSocketClient
    channel_subscribers \* api ws: full channel -> set of client ids

(* The mcp WebSocketManager (src/src/mcp/websocket.py) and the Socket.IO   *)
(* server that calls its handlers.                                         *)
VARIABLES
    connected_clients,    \* mcp ws: set of client ids
    subscriptions,        \* mcp ws: channel -> set of client ids
    market_subscriptions, \* mcp ws: market slug -> set of client ids
    trader_subscriptions, \* mcp ws: address -> set of client ids
    sessions,             \* server: sid -> "none", "open", "closed"
    handlers,             \* server: handler calls started, not yet past the lock
    emitted               \* server: sids the last broadcast was addressed to

mvars == <<connected_clients, subscriptions, market_subscriptions,
           trader_subscriptions, sessions, handlers, emitted>>

(* The CacheManager in fallback mode (src/src/cache/redis_cache.py).       *)
VARIABLES
    fallback_cache,     \* cache: key -> <<expires_at, value>>
    fallback_others,    \* cache: number of further entries, of other keys
    now,                \* clock: datetime.now(), in seconds
    returned,           \* cache: the last get and what it returned
    last_set            \* history: the most recent set of each key

cvars == <<fallback_cache, fallback_others, now, returned, last_set>>

(* Position-id derivation (src/src/ctf/derive.py, market_decoder.py).      *)
VARIABLES
    hex_prefixed,       \* build: whether HexBytes.hex() starts with "0x"
    positions,          \* the last derive_binary_positions call and result
    market_params       \* the last MarketDecoder.decode_market call and result

vars == <<height, faultsLeft, sync_state_columns, sync_state, events, proc,
          runs, stack, args, result, batches, rerun,
          markets, tx_receipt, next_log, decoded, dpc,
          clients, channel_subscribers, mvars, cvars,
          hex_prefixed, positions, market_params>>

(* What the scanner's steps leave alone: the payload-level view of one    *)
(* batch, and the other way round.                                         *)
dvars == <<markets, tx_receipt, next_log, decoded, dpc>>
svars == <<height, faultsLeft, sync_state_columns, sync_state, proc, runs,
           stack, args, result, batches, rerun>>

(* The components beside the pipeline, which its steps leave alone.        *)
xvars == <<clients, channel_subscribers, mvars, cvars,
           hex_prefixed, positions, market_params>>

NoRow == [last_block |-> None, total_events |-> None]
NoResult == [status |-> "none", from_block |-> None, to_block |-> None,
             trades_inserted |-> 0]
NoArgs == [from_block |-> None, to_block |-> None, continuous |-> FALSE]

(* What the history records of one turn of the batch loop: the range       *)
(* requested, the block known as last processed and the target when it was *)
(* computed, the checkpoint row before it, and how its steps went.         *)
NoBatch == [from |-> None, to |-> None, last_processed |-> None,
            target |-> None, checkpoint_before |-> NoRow, nlogs |-> 0,
            fetch_failed |-> FALSE, receipt_failed |-> FALSE,
            store_failed |-> FALSE, stored |-> FALSE, survivors |-> 0,
            committed |-> 0]

(* ------------------------------ chain --------------------------------- *)
(* The logs on the chain, in chain order.  A log carries what the decoder  *)
(* reads: the emitting address, topic0, the number of topics, the length   *)
(* of its hex data string and the two asset ids (0 is the all-zero id).    *)
OTHER_ADDRESS == "0x0000000000000000000000000000000000001010"
OTHER_TOPIC == "0xddf252ad1be2c89b69c2b068fc378daa952ba7f163c4a11628f55a4df523b3ef"
DATA_LEN_FULL == 2 + 8 * 64    \* "0x" and eight 32-byte slots
DATA_LEN_SHORT == 2 + 4 * 64

Log(b, t, a, t0, n, dl, ma, ta) ==
    [block |-> b, tx |-> t, address |-> a, topic0 |-> t0, ntopics |-> n,
     data_len |-> dl, maker_asset_id |-> ma, taker_asset_id |-> ta]

ChainLogs == <<
    Log(1, "0xa1", CTF_EXCHANGE, event_topic, 2, DATA_LEN_FULL, 0, 7),
    Log(BATCH_SIZE, "0xd4", NEG_RISK_EXCHANGE, event_topic, 2, DATA_LEN_FULL, 8, 0),
    Log(BATCH_SIZE + 1, "0xb2", OTHER_ADDRESS, OTHER_TOPIC, 3, DATA_LEN_SHORT, 0, 0),
    Log(BATCH_SIZE + 1, "0xb2", CTF_EXCHANGE, event_topic, 2, DATA_LEN_FULL, 0, 7),
    Log(BATCH_SIZE + 1, "0xb2", CTF_EXCHANGE, event_topic, 2, DATA_LEN_FULL, 7, 0),
    Log(2 * BATCH_SIZE + 1, "0xc3", CTF_EXCHANGE, event_topic, 2, DATA_LEN_FULL, 7, 8) >>

Exchanges == {CTF_EXCHANGE, NEG_RISK_EXCHANGE}

(* web3.eth.get_logs with the filter fetch_order_filled_logs builds *)
get_logs(from_block, to_block) ==
    SelectSeq(ChainLogs, LAMBDA l :
        /\ from_block <= l.block /\ l.block <= to_block /\ l.block <= height
        /\ l.address \in Exchanges
        /\ l.topic0 = event_topic)

(* fetch_order_filled_logs: any exception of the call is logged and the   *)
(* empty list is returned                                                  *)
fetch_order_filled_logs(from_block, to_block, rpcFails) ==
    IF rpcFails THEN <<>> ELSE get_logs(from_block, to_block)

(* ----------------------------- decoder -------------------------------- *)
NoTrade == [tx_hash |-> "", log_index |-> None, exchange |-> "",
            maker_asset_id |-> None, taker_asset_id |-> None,
            token_id |-> None, side |-> ""]

parse_order_filled_log(tx_hash, log_index, log) ==
    IF log.ntopics < 2 THEN NoTrade
    ELSE IF log.data_len < 290 THEN NoTrade
    ELSE IF log.maker_asset_id = 0
    THEN [tx_hash |-> tx_hash, log_index |-> log_index, exchange |-> log.address,
          maker_asset_id |-> log.maker_asset_id,
          taker_asset_id |-> log.taker_asset_id,
          token_id |-> log.taker_asset_id, side |-> "BUY"]
    ELSE IF log.taker_asset_id = 0
    THEN [tx_hash |-> tx_hash, log_index |-> log_index, exchange |-> log.address,
          maker_asset_id |-> log.maker_asset_id,
          taker_asset_id |-> log.taker_asset_id,
          token_id |-> log.maker_asset_id, side |-> "SELL"]
    ELSE NoTrade

get_transaction_receipt(tx_hash) == SelectSeq(ChainLogs, LAMBDA l : l.tx = tx_hash)

(* decode_tx_logs: every log of the receipt that an exchange emitted and   *)
(* that parses, indexed by its position in the receipt; [] on any error    *)
decode_tx_logs(tx_hash, rpcFails) ==
    IF rpcFails THEN <<>>
    ELSE LET receipt == get_transaction_receipt(tx_hash)
             kept == SelectSeq([i \in 1..Len(receipt) |-> i], LAMBDA i :
                        /\ receipt[i].address \in Exchanges
                        /\ parse_order_filled_log(tx_hash, i - 1, receipt[i]) # NoTrade)
         IN [k \in 1..Len(kept) |->
                parse_order_filled_log(tx_hash, kept[k] - 1, receipt[kept[k]])]

(* process_logs: one decode_tx_logs call per fetched log; failAt is the    *)
(* position of the log whose receipt fetch fails (0: none)                 *)
RECURSIVE process_logs_from(_, _, _)
process_logs_from(logs, i, failAt) ==
    IF i > Len(logs) THEN <<>>
    ELSE decode_tx_logs(logs[i].tx, i = failAt)
            \o process_logs_from(logs, i + 1, failAt)

process_logs(logs, failAt) == process_logs_from(logs, 1, failAt)

(* ---------------------- decoder, payload level ------------------------ *)
(* The data of a log is the string "0x" followed by hex digits.  It is     *)
(* held as the sequence of the digits after "0x" (each 0..15); positions   *)
(* and lengths below are those of the Python string, prefix included.      *)
USDC_DECIMALS == 6

PyLen(data) == Len(data) + 2

(* data[start:end] for start >= 2: a slice never raises, it is cut at the  *)
(* end of the string                                                       *)
Slice(data, start, end) == SubSeq(data, start - 1, Min(end, PyLen(data)) - 2)

Zeros(n) == [i \in 1..n |-> 0]

(* int(hex, 16) *)
RECURSIVE ToNat(_)
ToNat(digits) ==
    IF digits = <<>> THEN 0
    ELSE 16 * ToNat(SubSeq(digits, 1, Len(digits) - 1)) + digits[Len(digits)]

(* _parse_hex: "0x" + data[start:end] *)
_parse_hex(data, start, end) == Slice(data, start, end)

(* _parse_address: the last 40 digits of the slice as an address; "0x"     *)
(* (here the empty sequence) when they are not 20 bytes                    *)
_parse_address(data, start, end) ==
    LET hex_str == Slice(data, start, end)
        addr == IF Len(hex_str) > 40
                THEN SubSeq(hex_str, Len(hex_str) - 39, Len(hex_str))
                ELSE hex_str
    IN  IF Len(addr) = 40 THEN addr ELSE <<>>

(* round(x, 6) of a Decimal rounds half to even *)
RoundHalfEven(n, d) ==
    LET q == n \div d
        r == n % d
    IN  IF 2 * r < d THEN q
        ELSE IF 2 * r > d THEN q + 1
        ELSE IF q % 2 = 0 THEN q ELSE q + 1

(* _calculate_price: (usdc_amount / 10^USDC_DECIMALS) / token_amount       *)
(* rounded to 6 places, "0" when token_amount is 0.  The price is held in  *)
(* units of 10^-6 (the value of the returned string times 10^6).           *)
_calculate_price(usdc_amount, token_amount) ==
    IF token_amount = 0 THEN 0
    ELSE RoundHalfEven(usdc_amount * (10 ^ 6 \div 10 ^ USDC_DECIMALS),
                       token_amount)

(* Variant of InferSide: the SELL branch takes the taker's asset id.       *)
InferSideTakerToken(maker_asset_id, taker_asset_id) ==
    IF maker_asset_id = Zeros(64) THEN [side |-> "BUY", token_id |-> taker_asset_id]
    ELSE IF taker_asset_id = Zeros(64)
    THEN [side |-> "SELL", token_id |-> taker_asset_id]
    ELSE [side |-> "", token_id |-> <<>>]

(* The side decision of _parse_order_filled_log: side "" stands for the    *)
(* branch that returns None.                                               *)
InferSide(maker_asset_id, taker_asset_id) ==
    IF maker_asset_id = Zeros(64) THEN [side |-> "BUY", token_id |-> taker_asset_id]
    ELSE IF taker_asset_id = Zeros(64)
    THEN [side |-> "SELL", token_id |-> maker_asset_id]
    ELSE [side |-> "", token_id |-> <<>>]

(* _parse_order_filled_log on the payload: a Trade, or NoTrade for None.   *)
(* Amounts are the values of the decimal strings the code keeps.           *)
_parse_order_filled_log(tx_hash, log_index, log) ==
    IF Len(log.topics) < 2 THEN NoTrade
    ELSE IF PyLen(log.data) < 290 THEN NoTrade
    ELSE LET data == log.data
             maker == _parse_address(data, 2, 42)
             taker == _parse_address(data, 42, 82)
             maker_asset_id == _parse_hex(data, 82, 146)
             taker_asset_id == _parse_hex(data, 146, 210)
             maker_amount == ToNat(_parse_hex(data, 210, 274))
             taker_amount == ToNat(_parse_hex(data, 274, 338))
             fee == IF PyLen(data) > 402
                    THEN ToNat(_parse_hex(data, 338, 402)) ELSE 0
             inferred == InferSide(maker_asset_id, taker_asset_id)
         IN  IF inferred.side = "" THEN NoTrade
             ELSE [tx_hash |-> tx_hash, log_index |-> log_index,
                   exchange |-> log.address, order_hash |-> log.topics[2],
                   maker |-> maker, taker |-> taker,
                   maker_asset_id |-> maker_asset_id,
                   taker_asset_id |-> taker_asset_id,
                   maker_amount |-> maker_amount,
                   taker_amount |-> taker_amount,
                   fee |-> fee,
                   price |-> IF inferred.side = "BUY"
                             THEN _calculate_price(maker_amount, taker_amount)
                             ELSE _calculate_price(taker_amount, maker_amount),
                   token_id |-> inferred.token_id,
                   side |-> inferred.side]

(* --------------------------- enrichment ------------------------------- *)
(* A Trade is a frozen dataclass: it has no .get, so trade.get(...) raises *)
(* AttributeError, in enrich_with_market_info and in store_trades.         *)
TradeHasGet == FALSE

(* Columns of markets as init_db creates the table (with the columns it    *)
(* adds to an older table), and those the lookup of                        *)
(* enrich_with_market_info selects.                                        *)
InitDbMarketsColumns ==
    {"id", "event_id", "condition_id", "slug", "question_id", "oracle",
     "collateral_token", "yes_token_id", "no_token_id", "enable_neg_risk",
     "outcome_slot_count", "status", "title", "question", "description",
     "category", "volume", "liquidity", "yes_price", "no_price", "end_date",
     "active", "closed", "resolved", "created_at", "updated_at"}
SelectMarketsColumns ==
    {"market_slug", "condition_id", "yes_token_id", "no_token_id"}

(* The first row of markets with the token id as yes or no token, as a     *)
(* sequence of at most one row (cursor.fetchone()).                        *)
LookupMarket(token_id) ==
    LET hits == SelectSeq(markets, LAMBDA m :
                    m.yes_token_id = token_id \/ m.no_token_id = token_id)
    IN  IF hits = <<>> THEN <<>> ELSE <<hits[1]>>

(* The body of the loop of enrich_with_market_info for one trade:          *)
(* trade.get raises (AttributeError) and the SELECT names a column the     *)
(* table lacks; either is caught by the inner handler, which appends the   *)
(* trade as it is.  Otherwise the market's fields are set on the trade.    *)
EnrichTrade(trade) ==
    IF ~TradeHasGet \/ ~(SelectMarketsColumns \subseteq InitDbMarketsColumns)
    THEN trade
    ELSE LET market_row == LookupMarket(trade.token_id)
         IN  IF market_row = <<>> THEN trade
             ELSE [f \in DOMAIN trade \cup
                        {"market_slug", "condition_id", "outcome"} |->
                    IF f = "market_slug" THEN market_row[1].slug
                    ELSE IF f = "condition_id" THEN market_row[1].condition_id
                    ELSE IF f = "outcome"
                    THEN IF trade.token_id = market_row[1].yes_token_id
                         THEN "YES" ELSE "NO"
                    ELSE trade[f]]

(* enrich_with_market_info: every trade through the loop body; when the    *)
(* connection fails the outer handler returns the list as it is            *)
(* (variant: the outer handler returns an empty list).                     *)
EnrichDropsOnFailure(trades, dbFails) ==
    IF dbFails THEN <<>>
    ELSE [i \in 1..Len(trades) |-> EnrichTrade(trades[i])]

enrich_with_market_info(trades, dbFails) ==
    IF dbFails THEN trades
    ELSE [i \in 1..Len(trades) |-> EnrichTrade(trades[i])]

(* ----------------------------- storage -------------------------------- *)
(* One INSERT OR IGNORE INTO events of store_trades.  The parameter tuple  *)
(* is built first, from trade.get(...), and the statement names columns    *)
(* the table must have; either failure is caught per row and the row is    *)
(* skipped.  A row that gets through is added (events has no unique key    *)
(* over the inserted columns) and counted; the row is held as the trade    *)
(* it was made of (its raw_data column is the whole trade).                *)
(* Variants of InsertRaises: only the rows of one side are refused; no row  *)
(* is refused; only the BUY rows are refused.                              *)
InsertRaisesForSell(trade) == trade.side = "SELL"

InsertNeverRaises(trade) == FALSE

InsertRaisesForBuy(trade) == trade.side = "BUY"

InsertRaises(trade) ==
    \/ ~TradeHasGet
    \/ ~(InsertEventsColumns \subseteq InitDbEventsColumns)

RECURSIVE InsertRows(_, _, _)
InsertRows(trades, i, acc) ==
    IF i > Len(trades) THEN acc
    ELSE IF InsertRaises(trades[i]) THEN InsertRows(trades, i + 1, acc)
    ELSE InsertRows(trades, i + 1,
            [rows |-> Append(acc.rows, trades[i]),
             stored_count |-> acc.stored_count + 1])

(* store_trades: the rows of the table after the call and the returned     *)
(* count.  A failure of the connection or of the commit is caught by the   *)
(* outer handler: nothing is committed and 0 is returned.                  *)
(* (variant: the count is taken before the INSERT is executed).            *)
StoreCountsBeforeInsert(trades, dbFails) ==
    IF dbFails THEN [rows |-> events, stored_count |-> 0]
    ELSE [rows |-> InsertRows(trades, 1, [rows |-> events,
                                          stored_count |-> 0]).rows,
          stored_count |-> Len(trades)]

store_trades(trades, dbFails) ==
    IF dbFails THEN [rows |-> events, stored_count |-> 0]
    ELSE InsertRows(trades, 1, [rows |-> events, stored_count |-> 0])

(* get_sync_state: <<last_block, total_events>>.  Any exception (the       *)
(* connection, a column the table lacks, the height query of the first-run *)
(* branch) is caught and (0, 0) is returned.                               *)
get_sync_state(dbFails, rpcFails) ==
    IF dbFails \/ ~(SelectSyncStateColumns \subseteq sync_state_columns)
    THEN <<0, 0>>
    ELSE IF sync_state # NoRow
    THEN <<sync_state.last_block, sync_state.total_events>>
    ELSE IF rpcFails THEN <<0, 0>>
    ELSE <<Max(height - FIRST_RUN_OFFSET, 0), 0>>

(* update_sync_state: the row id = 1 after the call.  Any exception is     *)
(* caught and logged, and the row is left as it was.                       *)
update_sync_state(block_num, event_count, dbFails) ==
    IF dbFails \/ ~(UpsertSyncStateColumns \subseteq sync_state_columns)
    THEN sync_state
    ELSE [last_block |-> block_num, total_events |-> event_count]

(* ----------------------------- frames --------------------------------- *)
(* A run_indexer frame: its position and its locals.                       *)
Frame(from_block, to_block, continuous) ==
    [pc |-> "entry", from_block |-> from_block, to_block |-> to_block,
     continuous |-> continuous, resumed |-> (from_block = None),
     batch_start |-> None, batch_end |-> None,
     total_trades |-> 0, total_events |-> 0, logs |-> <<>>, trades |-> <<>>,
     latest_block |-> None, trades_inserted |-> 0]

Depth == Len(stack)
Top == stack[Depth]
SetTop(f) == [stack EXCEPT ![Depth] = f]
Running == proc = "running" /\ Depth > 0

NBatches == Len(batches)
Batch == IF NBatches = 0 THEN NoBatch ELSE batches[NBatches]
Prev == IF NBatches < 2 THEN NoBatch ELSE batches[NBatches - 1]
SetBatch(b) == [batches EXCEPT ![NBatches] = b]
Failed(b) == b.fetch_failed \/ b.receipt_failed \/ b.store_failed

(* The process that ended scanned an explicit bounded range to the end     *)
(* with no failure, so that starting it again re-ingests the same logs.    *)
CleanBoundedRun ==
    /\ proc = "exit0"
    /\ result.status = "success"
    /\ ~args.continuous
    /\ args.from_block # None
    /\ args.to_block # None
    /\ NBatches > 0
    /\ \A i \in 1..NBatches : ~Failed(batches[i])

(* Failures the environment may inject into one step, at most one a step.  *)
Faults(points) == IF faultsLeft > 0 THEN points \cup {"none"} ELSE {"none"}
Spend(fault) == IF fault = "none" THEN faultsLeft ELSE faultsLeft - 1

(* Values of --from-block and --to-block (None: not given).                *)
FromBlocks == {None, 0, BATCH_SIZE + 1}
ToBlocks == {None, BATCH_SIZE + 1}

(* ------------------- components beside the pipeline -------------------- *)
(* Every component as its constructor leaves it.                           *)
ComponentsConstructed ==
    /\ clients = <<>>
    /\ channel_subscribers = <<>>
    /\ connected_clients = {}
    /\ subscriptions = [channel \in {"trades", "markets", "smart_money"} |-> {}]
    /\ market_subscriptions = <<>>
    /\ trader_subscriptions = <<>>
    /\ sessions = [sid \in {"c1", "c2"} |-> "none"]
    /\ handlers = {}
    /\ emitted = {}
    /\ fallback_cache = <<>>
    /\ fallback_others = 0
    /\ now = 0
    /\ returned = [key |-> "", value |-> None]
    /\ last_set = <<>>
    /\ hex_prefixed = FALSE
    /\ positions = <<>>
    /\ market_params = <<>>

(* The pipeline at rest: no process started, no batch being decoded.       *)
PipelineAtRest ==
    /\ height = BATCH_SIZE
    /\ faultsLeft = 0
    /\ sync_state_columns = InitDbSyncStateColumns
    /\ sync_state = NoRow
    /\ events = <<>>
    /\ proc = "idle"
    /\ runs = 0
    /\ stack = <<>>
    /\ args = NoArgs
    /\ result = NoResult
    /\ batches = <<>>
    /\ rerun = [same |-> FALSE, rows_before |-> 0]
    /\ markets = <<>>
    /\ tx_receipt = <<>>
    /\ next_log = 0
    /\ decoded = <<>>
    /\ dpc = "off"

TypeOK ==
    /\ height \in Heights
    /\ faultsLeft \in 0..MaxFaults
    /\ sync_state_columns \in {InitDbSyncStateColumns, IndexerSyncStateColumns}
    /\ proc \in {"idle", "running", "exit0", "exit1", "killed"}
    /\ runs \in 0..MaxRuns
    /\ Depth \in 0..2

Init ==
    /\ height \in Heights
    /\ faultsLeft \in {0, MaxFaults}
    /\ sync_state_columns \in {InitDbSyncStateColumns, IndexerSyncStateColumns}
    /\ sync_state = NoRow
    /\ events = <<>>
    /\ proc = "idle"
    /\ runs = 0
    /\ stack = <<>>
    /\ args = NoArgs
    /\ result = NoResult
    /\ batches = <<>>
    /\ rerun = [same |-> FALSE, rows_before |-> 0]
    /\ markets = <<>>
    /\ tx_receipt = <<>>
    /\ next_log = 0
    /\ decoded = <<>>
    /\ dpc = "off"
    /\ ComponentsConstructed

(* main: parse the arguments, construct the indexer (ConnectionError when  *)
(* the endpoint is not connected: exit 1) and call run_indexer.            *)
Main ==
    /\ proc # "running"
    /\ runs < MaxRuns
    /\ \E from_block \in FromBlocks, to_block \in ToBlocks,
          continuous \in BOOLEAN, fault \in Faults({"rpc"}) :
        /\ faultsLeft' = Spend(fault)
        /\ IF fault = "rpc"
           THEN /\ proc' = "exit1"
                /\ stack' = <<>>
           ELSE /\ proc' = "running"
                /\ stack' = <<Frame(from_block, to_block, continuous)>>
        /\ args' = [from_block |-> from_block, to_block |-> to_block,
                    continuous |-> continuous]
        /\ rerun' = [same |-> /\ CleanBoundedRun
                              /\ from_block = args.from_block
                              /\ to_block = args.to_block
                              /\ ~continuous,
                     rows_before |-> Len(events)]
    /\ runs' = runs + 1
    /\ result' = NoResult
    /\ batches' = <<>>
    /\ UNCHANGED <<height, sync_state_columns, sync_state, events>>
    /\ UNCHANGED <<dvars, xvars>>

(* An exception leaving the top frame: the outermost call's is caught by   *)
(* main (exit 1); the nested call's is caught by the continuous loop of    *)
(* the caller, which goes on with its next iteration.                      *)
Raise ==
    IF Depth = 1
    THEN /\ proc' = "exit1"
         /\ stack' = <<>>
         /\ result' = [NoResult EXCEPT !.status = "raised"]
    ELSE /\ proc' = proc
         /\ stack' = SubSeq(stack, 1, Depth - 1)
         /\ result' = result

(* run_indexer up to the batch loop: resolve from_block and to_block and   *)
(* read the running total.  The height query of run_indexer itself is in   *)
(* no try block (fault "rpc"); those of the two get_sync_state calls are   *)
(* caught there (faults "rpc_sync", "rpc_total").                          *)
Entry ==
    /\ Running
    /\ Top.pc = "entry"
    /\ \E fault \in Faults({"db", "rpc_total", "rpc"}
                          \cup IF Top.from_block = None THEN {"rpc_sync"}
                               ELSE {}) :
        LET first == get_sync_state(fault = "db", fault = "rpc_sync")
            from_block == IF Top.from_block = None THEN first[1]
                          ELSE Top.from_block
            to_block == IF Top.to_block = None THEN height ELSE Top.to_block
            second == get_sync_state(fault = "db", fault = "rpc_total")
        IN  /\ faultsLeft' = Spend(fault)
            /\ IF fault = "rpc"
               THEN Raise
               ELSE /\ proc' = proc
                    /\ result' = result
                    /\ stack' = SetTop([Top EXCEPT
                            !.pc = "loop",
                            !.from_block = from_block,
                            !.to_block = to_block,
                            !.total_trades = 0,
                            !.total_events = second[1],
                            !.batch_start = from_block])
    /\ UNCHANGED <<height, sync_state_columns, sync_state, events, runs,
                   args, batches, rerun>>
    /\ UNCHANGED <<dvars, xvars>>

(* One turn of the batch loop: compute the range and fetch its logs.       *)
BatchFetch ==
    /\ Running
    /\ Top.pc = "loop"
    /\ Top.batch_start < Top.to_block
    /\ \E fault \in Faults({"rpc"}) :
        LET batch_end == Min(Top.batch_start + BATCH_SIZE, Top.to_block)
            logs == fetch_order_filled_logs(Top.batch_start, batch_end,
                                            fault = "rpc")
        IN  /\ faultsLeft' = Spend(fault)
            /\ stack' = SetTop([Top EXCEPT
                    !.batch_end = batch_end,
                    !.logs = logs,
                    !.trades = <<>>,
                    !.pc = IF logs # <<>> THEN "process" ELSE "checkpoint"])
            /\ batches' = Append(batches, [NoBatch EXCEPT
                    !.from = Top.batch_start,
                    !.to = batch_end,
                    !.last_processed =
                        IF Top.batch_end # None THEN Top.batch_end
                        ELSE IF Top.resumed THEN Top.from_block
                        ELSE None,
                    !.target = Top.to_block,
                    !.checkpoint_before = sync_state,
                    !.nlogs = Len(logs),
                    !.fetch_failed = (fault = "rpc")])
    /\ UNCHANGED <<height, sync_state_columns, sync_state, events, proc, runs,
                   args, result, rerun>>
    /\ UNCHANGED <<dvars, xvars>>

(* process_logs and enrich_with_market_info of the batch.                  *)
ProcessLogs ==
    /\ Running
    /\ Top.pc = "process"
    /\ \E fault \in Faults({"rpc", "db"}) :
       \E failAt \in IF fault = "rpc" THEN 1..Len(Top.logs) ELSE {0} :
        LET trades == enrich_with_market_info(process_logs(Top.logs, failAt),
                                              fault = "db")
        IN  /\ faultsLeft' = Spend(fault)
            /\ stack' = SetTop([Top EXCEPT !.trades = trades, !.pc = "store"])
            /\ batches' = SetBatch([Batch EXCEPT
                    !.receipt_failed = (fault = "rpc")])
    /\ UNCHANGED <<height, sync_state_columns, sync_state, events, proc, runs,
                   args, result, rerun>>
    /\ UNCHANGED <<dvars, xvars>>

(* store_trades of the batch and the running count of the run.             *)
StoreTrades ==
    /\ Running
    /\ Top.pc = "store"
    /\ \E fault \in Faults({"db"}) :
        LET out == store_trades(Top.trades, fault = "db")
        IN  /\ faultsLeft' = Spend(fault)
            /\ events' = out.rows
            /\ stack' = SetTop([Top EXCEPT
                    !.total_trades = Top.total_trades + out.stored_count,
                    !.pc = "checkpoint"])
            /\ batches' = SetBatch([Batch EXCEPT
                    !.store_failed = (fault = "db"),
                    !.stored = TRUE,
                    !.survivors = Len(Top.trades),
                    !.committed = Len(out.rows) - Len(events)])
    /\ UNCHANGED <<height, sync_state_columns, sync_state, proc, runs, args,
                   result, rerun>>
    /\ UNCHANGED <<dvars, xvars>>

(* update_sync_state at the end of the turn, and the next batch_start.     *)
UpdateCheckpoint ==
    /\ Running
    /\ Top.pc = "checkpoint"
    /\ \E fault \in Faults({"db"}) :
        /\ faultsLeft' = Spend(fault)
        /\ sync_state' = update_sync_state(Top.batch_end,
                            Top.total_events + Top.total_trades, fault = "db")
    /\ stack' = SetTop([Top EXCEPT
            !.batch_start = Top.batch_end + 1,
            !.pc = "loop"])
    /\ UNCHANGED <<height, sync_state_columns, events, proc, runs, args,
                   result, batches, rerun>>
    /\ UNCHANGED <<dvars, xvars>>

(* The batch loop ends: build the result; a bounded call returns it, a     *)
(* continuous one enters the listening loop.                               *)
LoopExit ==
    /\ Running
    /\ Top.pc = "loop"
    /\ ~(Top.batch_start < Top.to_block)
    /\ IF Top.continuous
       THEN /\ stack' = SetTop([Top EXCEPT
                    !.trades_inserted = Top.total_trades, !.pc = "listen"])
            /\ UNCHANGED <<proc, result, rerun>>
       ELSE IF Depth = 1
       THEN /\ proc' = "exit0"
            /\ stack' = <<>>
            /\ result' = [status |-> "success",
                          from_block |-> Top.from_block,
                          to_block |-> Top.to_block,
                          trades_inserted |-> Top.total_trades]
       ELSE LET caller == stack[Depth - 1]
            IN  /\ stack' = <<[caller EXCEPT
                        !.batch_end = caller.latest_block,
                        !.trades_inserted =
                            caller.trades_inserted + Top.total_trades]>>
                /\ UNCHANGED <<proc, result, rerun>>
    /\ UNCHANGED <<height, faultsLeft, sync_state_columns, sync_state, events,
                   runs, args, batches, rerun>>
    /\ UNCHANGED <<dvars, xvars>>

(* One iteration of the continuous loop: poll the height and, when it is   *)
(* above batch_end, call run_indexer for the new blocks.  batch_end is     *)
(* unbound when the batch loop never ran: the comparison then raises       *)
(* UnboundLocalError, which the loop's handler logs before it continues.   *)
Listen ==
    /\ Running
    /\ Depth = 1
    /\ Top.pc = "listen"
    /\ \E fault \in Faults({"rpc"}) :
        /\ faultsLeft' = Spend(fault)
        /\ IF fault = "rpc"
           THEN stack' = stack
           ELSE IF Top.batch_end = None
           THEN stack' = SetTop([Top EXCEPT !.latest_block = height])
           ELSE IF height > Top.batch_end
           THEN stack' = <<[Top EXCEPT !.latest_block = height],
                           Frame(Top.batch_end + 1, height, FALSE)>>
           ELSE stack' = SetTop([Top EXCEPT !.latest_block = height])
    /\ UNCHANGED <<height, sync_state_columns, sync_state, events, proc, runs,
                   args, result, batches, rerun>>
    /\ UNCHANGED <<dvars, xvars>>

(* KeyboardInterrupt.  Inside the continuous loop (the nested call         *)
(* included) it is caught and the result so far is returned; anywhere else *)
(* it leaves run_indexer and main uncaught.  The history of the turns ends *)
(* with the process.                                                       *)
Interrupt ==
    /\ Running
    /\ IF stack[1].pc = "listen"
       THEN /\ proc' = "exit0"
            /\ result' = [status |-> "success",
                          from_block |-> stack[1].from_block,
                          to_block |-> stack[1].to_block,
                          trades_inserted |-> stack[1].trades_inserted]
       ELSE /\ proc' = "killed"
            /\ result' = result
    /\ stack' = <<>>
    /\ batches' = <<>>
    /\ UNCHANGED <<height, faultsLeft, sync_state_columns, sync_state, events,
                   runs, args, rerun>>
    /\ UNCHANGED <<dvars, xvars>>

(* The chain produces blocks.  The height is read by Entry, BatchFetch and *)
(* Listen only, so growth is taken just before the steps that can see it.  *)
ChainGrows ==
    /\ Running => Top.pc \in {"entry", "loop", "listen"}
    /\ \E h \in Heights : h > height /\ height' = h
    /\ UNCHANGED <<faultsLeft, sync_state_columns, sync_state, events, proc,
                   runs, stack, args, result, batches, rerun>>
    /\ UNCHANGED <<dvars, xvars>>

Step ==
    \/ Entry
    \/ BatchFetch
    \/ ProcessLogs
    \/ StoreTrades
    \/ UpdateCheckpoint
    \/ LoopExit
    \/ Listen

Next ==
    \/ Main
    \/ Step
    \/ Interrupt
    \/ ChainGrows

Spec == Init /\ [][Next]_vars

(* The interpreter keeps running the process: a step of run_indexer that   *)
(* can be taken is eventually taken.  Nothing is assumed of the chain, of  *)
(* restarts or of cancellation.                                            *)
FairSpec == Spec /\ WF_vars(Step)

(* ------------------- one batch at the payload level -------------------- *)
(* The same decode, enrich and store steps of a batch, followed on the    *)
(* payload of each log of one receipt.                                     *)
MaxReceiptLen == 2      \* logs in the receipt

RECURSIVE HexDigits(_, _)
HexDigits(v, n) ==
    IF n = 0 THEN <<>> ELSE Append(HexDigits(v \div 16, n - 1), v % 16)

Word(v) == HexDigits(v, 64)     \* a 32-byte big-endian field
Addr(v) == HexDigits(v, 40)     \* a 20-byte address

(* The values an OrderFilled log was emitted with. *)
Fields(ma, ta, m, t) ==
    [order_hash |-> 161, maker |-> 177, taker |-> 193,
     maker_asset_id |-> ma, taker_asset_id |-> ta,
     maker_amount |-> m, taker_amount |-> t, fee |-> 5]

(* The payload as the comment of _parse_order_filled_log describes it:     *)
(* eight consecutive 32-byte fields, addresses in the low 20 bytes.        *)
SlotData(f) ==
    Word(f.order_hash) \o Word(f.maker) \o Word(f.taker)
        \o Word(f.maker_asset_id) \o Word(f.taker_asset_id)
        \o Word(f.maker_amount) \o Word(f.taker_amount) \o Word(f.fee)

(* The payload whose fields lie where the slices of                        *)
(* _parse_order_filled_log read them: two 20-byte addresses from position  *)
(* 2, then 32-byte fields from position 82.                                *)
PackedData(f) ==
    Addr(f.maker) \o Addr(f.taker)
        \o Word(f.maker_asset_id) \o Word(f.taker_asset_id)
        \o Word(f.maker_amount) \o Word(f.taker_amount) \o Word(f.fee)

(* A log of a receipt: emitting address, topics (signature, order hash),   *)
(* data; layout and fields record how the data was built.                  *)
ReceiptLog(address, ntopics, layout, f, length) ==
    LET full == IF layout = "slots" THEN SlotData(f) ELSE PackedData(f)
    IN  [address |-> address,
         topics |-> SubSeq(<<event_topic, Word(f.order_hash)>>, 1, ntopics),
         data |-> SubSeq(full, 1, Min(length - 2, Len(full))),
         layout |-> layout,
         truncated |-> (length - 2 < Len(full)),
         fields |-> f]

(* The same log emitted under another event signature (topics[0]).         *)
WithTopic0(log, topic0) == [log EXCEPT !.topics[1] = topic0]

BUY_HALF == Fields(0, 7, 1000000, 2000000)
SELL_HALF == Fields(7, 0, 2000000, 1000000)

SampleLogs ==
    { ReceiptLog(CTF_EXCHANGE, 2, "packed", BUY_HALF, 402),
      ReceiptLog(NEG_RISK_EXCHANGE, 2, "packed", SELL_HALF, 402),
      ReceiptLog(CTF_EXCHANGE, 2, "packed", Fields(0, 0, 1000000, 2000000), 402),
      ReceiptLog(CTF_EXCHANGE, 2, "packed", Fields(7, 8, 1000000, 2000000), 402),
      ReceiptLog(CTF_EXCHANGE, 2, "packed", BUY_HALF, 290),
      ReceiptLog(CTF_EXCHANGE, 2, "packed", BUY_HALF, 289),
      ReceiptLog(CTF_EXCHANGE, 2, "packed", Fields(0, 7, 1000000, 0), 402),
      ReceiptLog(CTF_EXCHANGE, 2, "packed", Fields(0, 8, 3000000, 1), 402),
      ReceiptLog(CTF_EXCHANGE, 2, "packed", Fields(0, 8, 500000, 1), 402),
      ReceiptLog(CTF_EXCHANGE, 2, "packed", Fields(9, 0, 0, 1000000), 402),
      ReceiptLog(CTF_EXCHANGE, 2, "slots", BUY_HALF, 514),
      ReceiptLog(CTF_EXCHANGE, 2, "slots", SELL_HALF, 514),
      ReceiptLog(OTHER_ADDRESS, 2, "packed", BUY_HALF, 402),
      ReceiptLog(CTF_EXCHANGE, 1, "packed", BUY_HALF, 402),
      ReceiptLog(CTF_EXCHANGE, 2, "packed", BUY_HALF, 338),
      WithTopic0(ReceiptLog(CTF_EXCHANGE, 2, "packed", SELL_HALF, 402),
                 OTHER_TOPIC) }

Receipts == UNION { [1..n -> SampleLogs] : n \in 1..MaxReceiptLen }

(* The markets the metadata sync has written: one, with tokens 7 and 8.    *)
KnownMarkets ==
    << [slug |-> "will-it-rain", condition_id |-> "0xc0",
        yes_token_id |-> Word(7), no_token_id |-> Word(8)] >>

DECODE_TX == "0xe5"

(* The scanner is inside a batch whose logs it has fetched; its own        *)
(* variables take no part in the steps below.                              *)
DecodeInit ==
    /\ height = BATCH_SIZE
    /\ faultsLeft = 0
    /\ sync_state_columns = InitDbSyncStateColumns
    /\ sync_state = NoRow
    /\ events = <<>>
    /\ proc = "running"
    /\ runs = 1
    /\ stack = <<>>
    /\ args = NoArgs
    /\ result = NoResult
    /\ batches = <<>>
    /\ rerun = [same |-> FALSE, rows_before |-> 0]
    /\ markets = KnownMarkets
    /\ tx_receipt \in Receipts
    /\ next_log = 1
    /\ decoded = <<>>
    /\ dpc = "decode"
    /\ ComponentsConstructed

(* One turn of the loop of decode_tx_logs over the logs of the receipt.    *)
DecodeLog ==
    /\ dpc = "decode"
    /\ next_log <= Len(tx_receipt)
    /\ LET log == tx_receipt[next_log]
           trade == _parse_order_filled_log(DECODE_TX, next_log - 1, log)
       IN  decoded' = IF log.address \notin Exchanges THEN decoded
                      ELSE IF trade = NoTrade THEN decoded
                      ELSE Append(decoded, trade)
    /\ next_log' = next_log + 1
    /\ UNCHANGED <<markets, tx_receipt, dpc, events>>
    /\ UNCHANGED <<svars, xvars>>

(* decode_tx_logs has returned: enrich_with_market_info of the batch,      *)
(* with a database connection that opens or fails.                         *)
EnrichDecoded ==
    /\ dpc = "decode"
    /\ next_log > Len(tx_receipt)
    /\ \E dbFails \in BOOLEAN :
           decoded' = enrich_with_market_info(decoded, dbFails)
    /\ dpc' = "store"
    /\ UNCHANGED <<markets, tx_receipt, next_log, events>>
    /\ UNCHANGED <<svars, xvars>>

(* store_trades of the batch.                                              *)
StoreDecoded ==
    /\ dpc = "store"
    /\ events' = store_trades(decoded, FALSE).rows
    /\ dpc' = "done"
    /\ UNCHANGED <<markets, tx_receipt, next_log, decoded>>
    /\ UNCHANGED <<svars, xvars>>

DecodeNext ==
    \/ DecodeLog
    \/ EnrichDecoded
    \/ StoreDecoded

DecodeSpec == DecodeInit /\ [][DecodeNext]_vars

(* The trades decoded from the log at position i of the receipt, and       *)
(* whether decode_tx_logs is past that log.                                *)
TradesOf(i) == { k \in 1..Len(decoded) : decoded[k].log_index = i - 1 }
Decoded(i) == i \in 1..Len(tx_receipt) /\ i < next_log

DecodeTypeOK ==
    /\ dpc \in {"decode", "store", "done"}
    /\ next_log \in 1..(Len(tx_receipt) + 1)
    /\ Len(decoded) <= Len(tx_receipt)
    /\ \A k \in 1..Len(decoded) : decoded[k].side \in {"BUY", "SELL"}

(* ----------------------- api WebSocketManager --------------------------- *)
(* The registry of WebSocket clients and the index of channel subscribers  *)
(* of src/src/api/websocket_manager.py, under calls of its four methods.    *)
ClientIds == {"c1", "c2"}
NoTarget == ""
Targets == {NoTarget, "m1"}

(* f"{channel}:{target}" if target else channel, as the pair or the name.  *)
FullChannel(channel, target) ==
    IF target # NoTarget THEN <<channel, target>> ELSE <<channel>>

(* channel_subscribers is a defaultdict(set): reading a key that is absent *)
(* gives the empty set, and a read through [] leaves the key behind.       *)
Subscribers(full_channel) ==
    IF full_channel \in DOMAIN channel_subscribers
    THEN channel_subscribers[full_channel] ELSE {}

(* clients[client_id] = WebSocketClient(client_id), with no subscription;  *)
(* the index is not touched.                                               *)
register_client(client_id) ==
    /\ clients' = [c \in DOMAIN clients \cup {client_id} |->
                      IF c = client_id
                      THEN [client_id |-> client_id, subscriptions |-> {}]
                      ELSE clients[c]]
    /\ UNCHANGED <<channel_subscribers, svars, dvars, events, mvars, cvars,
                   hex_prefixed, positions, market_params>>

(* The client is taken out of the channels its own subscriptions name and  *)
(* out of clients; nothing for a client id that is not registered.         *)
unregister_client(client_id) ==
    /\ IF client_id \in DOMAIN clients
       THEN /\ channel_subscribers' =
                   [ch \in DOMAIN channel_subscribers
                           \cup clients[client_id].subscriptions |->
                       IF ch \in clients[client_id].subscriptions
                       THEN Subscribers(ch) \ {client_id}
                       ELSE channel_subscribers[ch]]
            /\ clients' = [c \in DOMAIN clients \ {client_id} |-> clients[c]]
       ELSE UNCHANGED <<clients, channel_subscribers>>
    /\ UNCHANGED <<svars, dvars, events, mvars, cvars,
                   hex_prefixed, positions, market_params>>

subscribe(client_id, channel, target) ==
    /\ IF client_id \notin DOMAIN clients
       THEN UNCHANGED <<clients, channel_subscribers>>
       ELSE LET full_channel == FullChannel(channel, target)
            IN  /\ clients' = [clients EXCEPT ![client_id].subscriptions =
                                   @ \cup {full_channel}]
                /\ channel_subscribers' =
                       [ch \in DOMAIN channel_subscribers \cup {full_channel} |->
                           IF ch = full_channel
                           THEN Subscribers(ch) \cup {client_id}
                           ELSE channel_subscribers[ch]]
    /\ UNCHANGED <<svars, dvars, events, mvars, cvars,
                   hex_prefixed, positions, market_params>>

unsubscribe(client_id, channel, target) ==
    /\ IF client_id \notin DOMAIN clients
       THEN UNCHANGED <<clients, channel_subscribers>>
       ELSE LET full_channel == FullChannel(channel, target)
            IN  /\ clients' = [clients EXCEPT ![client_id].subscriptions =
                                   @ \ {full_channel}]
                /\ channel_subscribers' =
                       [ch \in DOMAIN channel_subscribers \cup {full_channel} |->
                           IF ch = full_channel
                           THEN Subscribers(ch) \ {client_id}
                           ELSE channel_subscribers[ch]]
    /\ UNCHANGED <<svars, dvars, events, mvars, cvars,
                   hex_prefixed, positions, market_params>>

(* The subscribers of the full channel together with those of the bare     *)
(* channel.                                                                *)
get_subscribers(channel, target) ==
    Subscribers(FullChannel(channel, target))
        \cup Subscribers(FullChannel(channel, NoTarget))

ApiWsInit ==
    /\ PipelineAtRest
    /\ ComponentsConstructed

ApiWsNext ==
    \/ \E client_id \in ClientIds : register_client(client_id)
    \/ \E client_id \in ClientIds : unregister_client(client_id)
    \/ \E client_id \in ClientIds, target \in Targets :
            subscribe(client_id, "trades", target)
    \/ \E client_id \in ClientIds, target \in Targets :
            unsubscribe(client_id, "trades", target)

ApiWsSpec == ApiWsInit /\ [][ApiWsNext]_vars

(* ----------------------- mcp WebSocketManager --------------------------- *)
(* The Socket.IO server runs handle_connect before it accepts a            *)
(* connection; every later event of the connection, and its disconnect,    *)
(* starts a handler of its own, and the handlers that have been started    *)
(* pass the lock of the manager in any order.                              *)
MaxHandlers == 2        \* handlers started and not yet past the lock

(* The (channel, target) pairs clients send. *)
ChannelTargets ==
    { <<"trades", NoTarget>>, <<"market", "m1">>, <<"trader", "0xAB">> }

Lower(address) == IF address = "0xAB" THEN "0xab" ELSE address

(* A dict of sets with one set changed, the key created when absent.       *)
WithMember(dict, key, members) ==
    [k \in DOMAIN dict \cup {key} |-> IF k = key THEN members ELSE dict[k]]

MembersOf(dict, key) == IF key \in DOMAIN dict THEN dict[key] ELSE {}

handle_connect ==
    /\ \E sid \in ClientIds :
        /\ sessions[sid] = "none"
        /\ connected_clients' = connected_clients \cup {sid}
        /\ sessions' = [sessions EXCEPT ![sid] = "open"]
    /\ UNCHANGED <<subscriptions, market_subscriptions, trader_subscriptions,
                   handlers, emitted>>
    /\ UNCHANGED <<svars, dvars, events, clients, channel_subscribers, cvars,
                   hex_prefixed, positions, market_params>>

(* The server receives an event of an open connection, or sees the         *)
(* connection close, and starts the handler.                               *)
StartHandler ==
    /\ Cardinality(handlers) < MaxHandlers
    /\ \E sid \in ClientIds :
        /\ sessions[sid] = "open"
        /\ \/ /\ \E event \in {"subscribe", "unsubscribe"}, ct \in ChannelTargets :
                    handlers' = handlers \cup
                        {[event |-> event, sid |-> sid,
                          channel |-> ct[1], target |-> ct[2]]}
              /\ UNCHANGED sessions
           \/ /\ handlers' = handlers \cup
                        {[event |-> "disconnect", sid |-> sid,
                          channel |-> "", target |-> NoTarget]}
              /\ sessions' = [sessions EXCEPT ![sid] = "closed"]
    /\ UNCHANGED <<connected_clients, subscriptions, market_subscriptions,
                   trader_subscriptions, emitted>>
    /\ UNCHANGED <<svars, dvars, events, clients, channel_subscribers, cvars,
                   hex_prefixed, positions, market_params>>

(* handle_disconnect: _remove_client under the lock.                       *)
handle_disconnect ==
    /\ \E h \in handlers :
        /\ h.event = "disconnect"
        /\ handlers' = handlers \ {h}
        /\ connected_clients' = connected_clients \ {h.sid}
        /\ subscriptions' = [ch \in DOMAIN subscriptions |->
                                subscriptions[ch] \ {h.sid}]
        /\ market_subscriptions' = [m \in DOMAIN market_subscriptions |->
                                market_subscriptions[m] \ {h.sid}]
        /\ trader_subscriptions' = [a \in DOMAIN trader_subscriptions |->
                                trader_subscriptions[a] \ {h.sid}]
    /\ UNCHANGED <<sessions, emitted>>
    /\ UNCHANGED <<svars, dvars, events, clients, channel_subscribers, cvars,
                   hex_prefixed, positions, market_params>>

(* handle_subscribe: WebSocketManager.subscribe under the lock.            *)
handle_subscribe ==
    /\ \E h \in handlers :
        /\ h.event = "subscribe"
        /\ handlers' = handlers \ {h}
        /\ IF h.channel \in DOMAIN subscriptions
           THEN /\ subscriptions' = [subscriptions EXCEPT ![h.channel] =
                                        @ \cup {h.sid}]
                /\ UNCHANGED <<market_subscriptions, trader_subscriptions>>
           ELSE IF h.channel = "market" /\ h.target # NoTarget
           THEN /\ market_subscriptions' =
                        WithMember(market_subscriptions, h.target,
                            MembersOf(market_subscriptions, h.target)
                                \cup {h.sid})
                /\ UNCHANGED <<subscriptions, trader_subscriptions>>
           ELSE IF h.channel = "trader" /\ h.target # NoTarget
           THEN /\ trader_subscriptions' =
                        WithMember(trader_subscriptions, Lower(h.target),
                            MembersOf(trader_subscriptions, Lower(h.target))
                                \cup {h.sid})
                /\ UNCHANGED <<subscriptions, market_subscriptions>>
           ELSE UNCHANGED <<subscriptions, market_subscriptions,
                            trader_subscriptions>>
    /\ UNCHANGED <<connected_clients, sessions, emitted>>
    /\ UNCHANGED <<svars, dvars, events, clients, channel_subscribers, cvars,
                   hex_prefixed, positions, market_params>>

(* handle_unsubscribe: WebSocketManager.unsubscribe under the lock.        *)
handle_unsubscribe ==
    /\ \E h \in handlers :
        /\ h.event = "unsubscribe"
        /\ handlers' = handlers \ {h}
        /\ IF h.channel \in DOMAIN subscriptions
           THEN /\ subscriptions' = [subscriptions EXCEPT ![h.channel] =
                                        @ \ {h.sid}]
                /\ UNCHANGED <<market_subscriptions, trader_subscriptions>>
           ELSE IF /\ h.channel = "market" /\ h.target # NoTarget
                   /\ h.target \in DOMAIN market_subscriptions
           THEN /\ market_subscriptions' =
                        [market_subscriptions EXCEPT ![h.target] = @ \ {h.sid}]
                /\ UNCHANGED <<subscriptions, trader_subscriptions>>
           ELSE IF /\ h.channel = "trader" /\ h.target # NoTarget
                   /\ Lower(h.target) \in DOMAIN trader_subscriptions
           THEN /\ trader_subscriptions' =
                        [trader_subscriptions EXCEPT ![Lower(h.target)] =
                            @ \ {h.sid}]
                /\ UNCHANGED <<subscriptions, market_subscriptions>>
           ELSE UNCHANGED <<subscriptions, market_subscriptions,
                            trader_subscriptions>>
    /\ UNCHANGED <<connected_clients, sessions, emitted>>
    /\ UNCHANGED <<svars, dvars, events, clients, channel_subscribers, cvars,
                   hex_prefixed, positions, market_params>>

(* The client ids broadcast_trade emits to: the trades channel, the        *)
(* subscribers of the trade's market, those of its maker and its taker.    *)
TradeRecipients(trade) ==
    subscriptions["trades"]
        \cup MembersOf(market_subscriptions, trade.market_slug)
        \cup MembersOf(trader_subscriptions, Lower(trade.maker))
        \cup MembersOf(trader_subscriptions, Lower(trade.taker))

broadcast_trade ==
    /\ emitted' = TradeRecipients([market_slug |-> "m1", maker |-> "0xAB",
                                   taker |-> "0xCD"])
    /\ UNCHANGED <<connected_clients, subscriptions, market_subscriptions,
                   trader_subscriptions, sessions, handlers>>
    /\ UNCHANGED <<svars, dvars, events, clients, channel_subscribers, cvars,
                   hex_prefixed, positions, market_params>>

McpWsInit ==
    /\ PipelineAtRest
    /\ ComponentsConstructed

McpWsNext ==
    \/ handle_connect
    \/ StartHandler
    \/ handle_disconnect
    \/ handle_subscribe
    \/ handle_unsubscribe
    \/ broadcast_trade

McpWsSpec == McpWsInit /\ [][McpWsNext]_vars

(* --------------------- CacheManager, fallback mode --------------------- *)
(* No Redis server is reachable: every call takes the in-memory branch.    *)
(* The entries of two keys are followed one by one; the cache may hold     *)
(* other entries besides, all stored before them and expiring together.    *)
MaxTicks == 2           \* advances of the clock

DEFAULT_TTL == 300
CLEANUP_ABOVE == 10000
CLEANUP_KEEPS == 8000
CLEANUP_EVICTS == 2000

OthersExpireAt == 2 * DEFAULT_TTL

(* _cleanup_fallback: drop the expired entries; when more than             *)
(* CLEANUP_KEEPS are left, drop the CLEANUP_EVICTS that expire first       *)
(* (sorted is stable: of two entries that expire together the one stored   *)
(* first goes first).                                                      *)
_cleanup_fallback(cache, others) ==
    LET live == { k \in DOMAIN cache : cache[k][1] > now }
        others_live == IF OthersExpireAt > now THEN others ELSE 0
        first == IF Cardinality(live) + others_live > CLEANUP_KEEPS
                 THEN { k \in live : cache[k][1] < OthersExpireAt }
                 ELSE {}
    IN  [cache |-> [k \in live \ first |-> cache[k]],
         others |-> IF Cardinality(live) + others_live > CLEANUP_KEEPS
                    THEN others_live - (CLEANUP_EVICTS - Cardinality(first))
                    ELSE others_live]

(* The history of a key whose entry the cache has dropped while it was     *)
(* not expired.                                                            *)
Flushed(history, keys) ==
    [k \in DOMAIN history |->
        IF k \in keys THEN [history[k] EXCEPT !.removed = TRUE] ELSE history[k]]

get(key) ==
    /\ IF key \in DOMAIN fallback_cache
       THEN IF fallback_cache[key][1] > now
            THEN /\ returned' = [key |-> key, value |-> fallback_cache[key][2]]
                 /\ UNCHANGED fallback_cache
            ELSE /\ returned' = [key |-> key, value |-> None]
                 /\ fallback_cache' = [k \in DOMAIN fallback_cache \ {key} |->
                                         fallback_cache[k]]
       ELSE /\ returned' = [key |-> key, value |-> None]
            /\ UNCHANGED fallback_cache
    /\ UNCHANGED <<fallback_others, now, last_set>>
    /\ UNCHANGED <<svars, dvars, events, clients, channel_subscribers, mvars,
                   hex_prefixed, positions, market_params>>

set(key, value, ttl) ==
    LET effective == IF ttl = None \/ ttl = 0 THEN DEFAULT_TTL ELSE ttl
        stored == [k \in DOMAIN fallback_cache \cup {key} |->
                    IF k = key THEN <<now + effective, value>>
                    ELSE fallback_cache[k]]
        cleaned == IF Cardinality(DOMAIN stored) + fallback_others
                        > CLEANUP_ABOVE
                   THEN _cleanup_fallback(stored, fallback_others)
                   ELSE [cache |-> stored, others |-> fallback_others]
        recorded == [k \in DOMAIN last_set \cup {key} |->
                        IF k = key
                        THEN [value |-> value, expires_at |-> now + effective,
                              removed |-> FALSE]
                        ELSE last_set[k]]
    IN  /\ fallback_cache' = cleaned.cache
        /\ fallback_others' = cleaned.others
        /\ last_set' = Flushed(recorded,
                            { k \in DOMAIN stored \ DOMAIN cleaned.cache :
                                stored[k][1] > now })
        /\ UNCHANGED <<now, returned>>
        /\ UNCHANGED <<svars, dvars, events, clients, channel_subscribers,
                       mvars, hex_prefixed, positions, market_params>>

(* Variant of delete: the entry is left in the dict.                       *)
DeleteLeavesEntry(key) ==
    /\ last_set' = Flushed(last_set, {key})
    /\ UNCHANGED <<fallback_cache, fallback_others, now, returned>>
    /\ UNCHANGED <<svars, dvars, events, clients, channel_subscribers, mvars,
                   hex_prefixed, positions, market_params>>

delete(key) ==
    /\ fallback_cache' = [k \in DOMAIN fallback_cache \ {key} |->
                            fallback_cache[k]]
    /\ last_set' = Flushed(last_set, {key})
    /\ UNCHANGED <<fallback_others, now, returned>>
    /\ UNCHANGED <<svars, dvars, events, clients, channel_subscribers, mvars,
                   hex_prefixed, positions, market_params>>

flush ==
    /\ fallback_cache' = <<>>
    /\ fallback_others' = 0
    /\ last_set' = Flushed(last_set, DOMAIN last_set)
    /\ UNCHANGED <<now, returned>>
    /\ UNCHANGED <<svars, dvars, events, clients, channel_subscribers, mvars,
                   hex_prefixed, positions, market_params>>

(* Time passes: a second, or a whole default TTL.                          *)
Tick ==
    /\ (now \div DEFAULT_TTL) + (now % DEFAULT_TTL) < MaxTicks
    /\ \E seconds \in {1, DEFAULT_TTL} : now' = now + seconds
    /\ UNCHANGED <<fallback_cache, fallback_others, returned, last_set>>
    /\ UNCHANGED <<svars, dvars, events, clients, channel_subscribers, mvars,
                   hex_prefixed, positions, market_params>>

(* A manager that holds no entry, or one that already holds one entry      *)
(* less than the size that starts a cleanup.                               *)
CacheInit ==
    /\ PipelineAtRest
    /\ clients = <<>>
    /\ channel_subscribers = <<>>
    /\ connected_clients = {}
    /\ subscriptions = [channel \in {"trades", "markets", "smart_money"} |-> {}]
    /\ market_subscriptions = <<>>
    /\ trader_subscriptions = <<>>
    /\ sessions = [sid \in {"c1", "c2"} |-> "none"]
    /\ handlers = {}
    /\ emitted = {}
    /\ fallback_cache = <<>>
    /\ fallback_others \in {0, CLEANUP_ABOVE - 1}
    /\ now = 0
    /\ returned = [key |-> "", value |-> None]
    /\ last_set = <<>>
    /\ hex_prefixed = FALSE
    /\ positions = <<>>
    /\ market_params = <<>>

CacheNext ==
    \/ \E key \in {"k1", "k2"} : get(key)
    \/ \E key \in {"k1", "k2"}, value \in {1, 2}, ttl \in {None, 0, 1} :
            set(key, value, ttl)
    \/ \E key \in {"k1", "k2"} : delete(key)
    \/ flush
    \/ Tick

CacheSpec == CacheInit /\ [][CacheNext]_vars

(* ----------------------- position-id derivation ------------------------ *)
(* A Python str of hex text is held as a sequence of units of two          *)
(* characters at the least: the text "0x", two characters that are no hex  *)
(* digits ("zz"), n bytes of the big-endian number v ("hex"), or the last  *)
(* n bytes of the Keccak-256 digest of the bytes `of` ("keccak"); bytes    *)
(* are the sequences of "hex" and "keccak" units.  A digest is told by     *)
(* what was hashed: two digests are equal exactly when their inputs are.   *)
Unit(k, v, n, of) == [k |-> k, v |-> v, n |-> n, of |-> of]

Str0x == <<Unit("0x", 0, 1, <<>>)>>

(* The call has raised (ValueError of bytes.fromhex). *)
Raised == <<Unit("raised", 0, 0, <<>>)>>

(* s[2:]: the text without its first two characters (the numbers of the   *)
(* samples have a zero first byte).                                        *)
Drop2(s) ==
    IF s = <<>> THEN <<>>
    ELSE IF s[1].n > 1 THEN <<[s[1] EXCEPT !.n = @ - 1]>> \o Tail(s)
    ELSE Tail(s)

(* Whether bytes.fromhex accepts the text. *)
IsHex(s) == \A i \in 1..Len(s) : s[i].k \in {"hex", "keccak"}

(* Web3.keccak(combined).hex(): HexBytes.hex() gives the 64 digits with    *)
(* or without a leading "0x", by the version of hexbytes installed.        *)
KeccakHex(combined) ==
    (IF hex_prefixed THEN Str0x ELSE <<>>)
        \o <<Unit("keccak", 0, 32, combined)>>

(* ctf/derive.py *)
_calculate_collection_id(parent_collection_id, condition_id, index_set) ==
    IF ~IsHex(Drop2(parent_collection_id)) \/ ~IsHex(Drop2(condition_id))
    THEN Raised
    ELSE Str0x \o KeccakHex(Drop2(parent_collection_id) \o Drop2(condition_id)
                                \o <<Unit("hex", index_set, 32, <<>>)>>)

_calculate_position_id(collateral_token, collection_id) ==
    IF ~IsHex(Drop2(collateral_token)) \/ ~IsHex(Drop2(collection_id))
    THEN Raised
    ELSE Str0x \o KeccakHex(Drop2(collateral_token) \o Drop2(collection_id))

(* No call of derive_binary_positions catches an exception: the first one  *)
(* raised leaves the function.                                             *)
derive_binary_positions(condition_id, collateral_token) ==
    LET parent == Str0x \o <<Unit("hex", 0, 32, <<>>)>>
        collection_id_yes == _calculate_collection_id(parent, condition_id, 1)
        collection_id_no == _calculate_collection_id(parent, condition_id, 2)
        position_yes == _calculate_position_id(collateral_token, collection_id_yes)
        position_no == _calculate_position_id(collateral_token, collection_id_no)
    IN  IF Raised \in {collection_id_yes, collection_id_no,
                       position_yes, position_no}
        THEN [raised |-> TRUE, position_yes |-> Raised, position_no |-> Raised]
        ELSE [raised |-> FALSE, position_yes |-> position_yes,
              position_no |-> position_no]

(* market_decoder.py: MarketDecoder._calculate_collection_id and           *)
(* _calculate_token_id return "0x" on any exception.                       *)
MarketDecoder_calculate_collection_id(condition_id, index_set) ==
    IF ~IsHex(Drop2(condition_id)) THEN Str0x
    ELSE Str0x \o Drop2(KeccakHex(<<Unit("hex", 0, 32, <<>>)>>
                                    \o Drop2(condition_id)
                                    \o <<Unit("hex", index_set, 32, <<>>)>>))

_calculate_token_id(condition_id, index_set) ==
    LET collection_id ==
            MarketDecoder_calculate_collection_id(condition_id, index_set)
    IN  IF ~IsHex(Drop2(collection_id)) THEN Str0x
        ELSE Str0x \o Drop2(KeccakHex(<<Unit("hex", 39, 20, <<>>)>>
                                        \o Drop2(collection_id)))

decode_market(condition_id) ==
    [yes_token_id |-> _calculate_token_id(condition_id, 1),
     no_token_id |-> _calculate_token_id(condition_id, 2)]

(* Condition ids: "0x" and 32 bytes; 32 bytes without "0x"; "0x" and text  *)
(* that is no hex; the empty string.                                       *)
ConditionIds ==
    { Str0x \o <<Unit("hex", 1, 32, <<>>)>>,
      Str0x \o <<Unit("hex", 2, 32, <<>>)>>,
      Str0x \o <<Unit("hex", 3, 32, <<>>)>>,
      <<Unit("hex", 1, 32, <<>>)>>,
      Str0x \o <<Unit("zz", 0, 1, <<>>)>>,
      <<>> }

DeriveInit ==
    /\ PipelineAtRest
    /\ clients = <<>>
    /\ channel_subscribers = <<>>
    /\ connected_clients = {}
    /\ subscriptions = [channel \in {"trades", "markets", "smart_money"} |-> {}]
    /\ market_subscriptions = <<>>
    /\ trader_subscriptions = <<>>
    /\ sessions = [sid \in {"c1", "c2"} |-> "none"]
    /\ handlers = {}
    /\ emitted = {}
    /\ fallback_cache = <<>>
    /\ fallback_others = 0
    /\ now = 0
    /\ returned = [key |-> "", value |-> None]
    /\ last_set = <<>>
    /\ hex_prefixed \in BOOLEAN
    /\ positions = <<>>
    /\ market_params = <<>>

DeriveBinaryPositions ==
    /\ \E condition_id \in ConditionIds,
          collateral_token \in { Str0x \o <<Unit("hex", 39, 20, <<>>)>>,
                                 Str0x \o <<Unit("hex", 40, 20, <<>>)>> } :
            positions' = <<[condition_id |-> condition_id,
                            out |-> derive_binary_positions(condition_id,
                                                            collateral_token)]>>
    /\ UNCHANGED <<hex_prefixed, market_params>>
    /\ UNCHANGED <<svars, dvars, events, clients, channel_subscribers, mvars,
                   cvars>>

DecodeMarket ==
    /\ \E condition_id \in ConditionIds :
            market_params' = <<[condition_id |-> condition_id,
                                out |-> decode_market(condition_id)]>>
    /\ UNCHANGED <<hex_prefixed, positions>>
    /\ UNCHANGED <<svars, dvars, events, clients, channel_subscribers, mvars,
                   cvars>>

DeriveNext ==
    \/ DeriveBinaryPositions
    \/ DecodeMarket

DeriveSpec == DeriveInit /\ [][DeriveNext]_vars

(* ============================ claims ================================== *)

(* C1: the checkpoint is advanced to a batch's end block only after the    *)
(* batch's trades were written; when store_trades fails in a batch, the    *)
(* checkpoint row stays as it was before the batch and the next range      *)
(* requested is the same [from, to] again.                                 *)
C1_CheckpointOnlyAfterStore ==
    /\ Batch.store_failed => sync_state = Batch.checkpoint_before
    /\ (NBatches >= 2 /\ Prev.store_failed) =>
            (Batch.from = Prev.from /\ Batch.to = Prev.to)

C4_CheckpointMonotonic ==
    [][(sync_state # NoRow /\ sync_state' # NoRow) =>
            sync_state'.last_block >= sync_state.last_block]_vars

(* C5: every requested range is [checkpoint + 1,                           *)
(* min(checkpoint + BATCH_SIZE, target)], checkpoint being the last        *)
(* processed block: the checkpoint block is not requested again and no     *)
(* range spans more than BATCH_SIZE blocks.                                *)
C5_RangeFromCheckpoint ==
    \A i \in 1..NBatches :
        LET b == batches[i]
        IN  /\ b.to - b.from + 1 <= BATCH_SIZE
            /\ b.last_processed # None =>
                /\ b.from = b.last_processed + 1
                /\ b.to = Min(b.last_processed + BATCH_SIZE, b.target)

(* C6: when the getLogs call of a batch or a receipt fetch of its decoding *)
(* fails, the checkpoint is not advanced over the batch (the row stays as  *)
(* it was before the batch) and the scan does not go on past its range.    *)
C6_RpcFailureKeepsCheckpoint ==
    /\ (Batch.fetch_failed \/ Batch.receipt_failed) =>
            sync_state = Batch.checkpoint_before
    /\ (NBatches >= 2 /\ (Prev.fetch_failed \/ Prev.receipt_failed)) =>
            Batch.from <= Prev.to

(* C7: in continuous mode a failed batch is retried: the range requested   *)
(* after a failed batch is the range of that batch.                        *)
C7_FailedBatchRetried ==
    (args.continuous /\ NBatches >= 2 /\ Failed(Prev)) =>
        (Batch.from = Prev.from /\ Batch.to = Prev.to)

(* C8: liveness of continuous mode: when the listening loop runs with no   *)
(* failure left to happen and the chain height h is above the last scanned *)
(* block, then (unless the process is stopped) block h is eventually in a  *)
(* fetched range and the checkpoint eventually reaches h.                  *)
LastScanned ==
    IF stack[1].batch_end # None THEN stack[1].batch_end
    ELSE stack[1].from_block

C8_NewBlocksEventuallyIndexed ==
    \A h \in Heights :
        (/\ Running
         /\ stack[1].pc = "listen"
         /\ faultsLeft = 0
         /\ height = h
         /\ h > LastScanned)
        ~> (\/ proc # "running"
            \/ /\ sync_state # NoRow
               /\ sync_state.last_block >= h
               /\ \E i \in 1..NBatches :
                    batches[i].from <= h /\ h <= batches[i].to)

(* C9: a run started in continuous mode ends only by cancellation: no      *)
(* failure of the chain endpoint or of the storage makes run_indexer raise *)
(* and the process exit.                                                   *)
C9_ContinuousOnlyCancelled ==
    args.continuous => ~(proc = "exit1" /\ result.status = "raised")

(* C10: in bounded mode a batch whose logs could not be fetched or whose   *)
(* trades could not be persisted ends the run in failure: the process does *)
(* not exit 0 with a "success" summary over such a batch.                  *)
C10_BoundedFailureIsFatal ==
    (~args.continuous /\ proc = "exit0" /\ result.status = "success") =>
        \A i \in 1..NBatches :
            ~batches[i].fetch_failed /\ ~batches[i].store_failed

(* C11: a KeyboardInterrupt arriving at any point leaves a consistent      *)
(* state: at the moment it arrives, every batch of the run that the        *)
(* persisted checkpoint was moved over had all its decoded trades          *)
(* committed without a failure, and no batch is partially committed.       *)
FullyCommitted(b) ==
    /\ ~Failed(b)
    /\ b.nlogs > 0 => (b.stored /\ b.committed = b.survivors)

C11_CancelConsistent ==
    [][Interrupt =>
        \A i \in 1..NBatches :
            LET b == batches[i]
            IN  /\ (/\ sync_state # NoRow
                    /\ sync_state # b.checkpoint_before
                    /\ sync_state.last_block >= b.to) => FullyCommitted(b)
                /\ b.stored => (b.committed = 0 \/ b.committed = b.survivors)
      ]_vars

(* C12: on first run (no --from-block, no checkpoint row to use) with the  *)
(* chain height above the offset, the block get_sync_state gives           *)
(* run_indexer to start from is never genesis (block 0).                   *)
C12_FirstRunNeverGenesis ==
    [][(/\ Entry
        /\ Depth = 1
        /\ stack[1].from_block = None
        /\ sync_state = NoRow
        /\ height > FIRST_RUN_OFFSET
        /\ Len(stack') = 1) => stack'[1].from_block # 0]_vars

(* C13: checkpoint round trip: once update_sync_state(b, n) of a batch has *)
(* returned, get_sync_state returns last_block = b and total count n.      *)
C13_CheckpointRoundTrip ==
    [][UpdateCheckpoint =>
        get_sync_state(FALSE, FALSE)' =
            <<Top.batch_end, Top.total_events + Top.total_trades>>]_vars

(* C14: side truth table of _parse_order_filled_log, over the asset ids it *)
(* reads from the payload: maker_asset_id all-zero gives one BUY trade     *)
(* with token_id = taker_asset_id; otherwise taker_asset_id all-zero gives *)
(* one SELL trade with token_id = maker_asset_id; neither zero gives no    *)
(* trade, and the other logs of the receipt are decoded all the same.      *)
Parsable(log) ==
    /\ log.address \in Exchanges
    /\ Len(log.topics) >= 2
    /\ PyLen(log.data) >= 290

C14_SideTruthTable ==
    \A i \in 1..Len(tx_receipt) :
        (Decoded(i) /\ Parsable(tx_receipt[i])) =>
            LET ma == _parse_hex(tx_receipt[i].data, 82, 146)
                ta == _parse_hex(tx_receipt[i].data, 146, 210)
            IN  /\ ma = Zeros(64) =>
                    /\ Cardinality(TradesOf(i)) = 1
                    /\ \A k \in TradesOf(i) :
                        decoded[k].side = "BUY" /\ decoded[k].token_id = ta
                /\ (ma # Zeros(64) /\ ta = Zeros(64)) =>
                    /\ Cardinality(TradesOf(i)) = 1
                    /\ \A k \in TradesOf(i) :
                        decoded[k].side = "SELL" /\ decoded[k].token_id = ma
                /\ (ma # Zeros(64) /\ ta # Zeros(64)) => TradesOf(i) = {}

(* C14 witness: the receipt is decoded to the end; its first log has       *)
(* neither asset id zero and gave no trade, its second log gave a SELL     *)
(* trade.                                                                  *)
C14_Witness ==
    /\ dpc = "done"
    /\ Len(tx_receipt) = 2
    /\ Parsable(tx_receipt[1])
    /\ _parse_hex(tx_receipt[1].data, 82, 146) # Zeros(64)
    /\ _parse_hex(tx_receipt[1].data, 146, 210) # Zeros(64)
    /\ TradesOf(1) = {}
    /\ \E k \in TradesOf(2) : decoded[k].side = "SELL"

(* C15: every Trade the decoder produces has exactly one of                *)
(* maker_asset_id / taker_asset_id equal to the all-zero sentinel (a log   *)
(* with both zero gives no Trade).                                         *)
C15_ExactlyOneSentinel ==
    \A k \in 1..Len(decoded) :
        (decoded[k].maker_asset_id = Zeros(64))
            # (decoded[k].taker_asset_id = Zeros(64))

(* C16: a complete payload of consecutive 32-byte slots (order hash,       *)
(* maker, taker, maker_asset_id, taker_asset_id, maker_amount,             *)
(* taker_amount, fee) in a log of an exchange is decoded to a Trade whose  *)
(* maker and taker are the low 20 bytes of slots 2 and 3 and whose numeric *)
(* fields are the values of slots 4 to 8.                                  *)
SlotOf(data, n) == SubSeq(data, 64 * (n - 1) + 1, 64 * n)
Low20(slot) == SubSeq(slot, 25, 64)

C16_SlotFieldsDecoded ==
    \A i \in 1..Len(tx_receipt) :
        LET log == tx_receipt[i]
        IN  (/\ Decoded(i)
             /\ log.layout = "slots"
             /\ ~log.truncated
             /\ log.address \in Exchanges
             /\ Len(log.topics) >= 2) =>
                \E k \in TradesOf(i) :
                    /\ decoded[k].maker = Low20(SlotOf(log.data, 2))
                    /\ decoded[k].taker = Low20(SlotOf(log.data, 3))
                    /\ decoded[k].maker_asset_id = SlotOf(log.data, 4)
                    /\ decoded[k].taker_asset_id = SlotOf(log.data, 5)
                    /\ decoded[k].maker_amount = ToNat(SlotOf(log.data, 6))
                    /\ decoded[k].taker_amount = ToNat(SlotOf(log.data, 7))
                    /\ decoded[k].fee = ToNat(SlotOf(log.data, 8))

(* C17: the payload length is validated before slicing: every Trade comes  *)
(* from a payload that holds all the fields up to and including            *)
(* taker_amount (whose slice ends at position 338).                        *)
C17_LengthValidated ==
    \A k \in 1..Len(decoded) :
        PyLen(tx_receipt[decoded[k].log_index + 1].data) >= 338

(* C18: the price of a BUY trade with taker_amount > 0 is maker_amount /   *)
(* taker_amount, that of a SELL trade with maker_amount > 0 is             *)
(* taker_amount / maker_amount (so 1_000_000 against 2_000_000 is 0.5).    *)
(* A price is compared as its whole part and its millionths.               *)
RECURSIVE GCD(_, _)
GCD(a, b) == IF b = 0 THEN a ELSE GCD(b, a % b)

Ratio(n, d) ==
    LET g == GCD(n, d)
        nn == n \div g
        dd == d \div g
        frac == RoundHalfEven((nn % dd) * 1000000, dd)
    IN  IF frac = 1000000 THEN [whole |-> nn \div dd + 1, millionths |-> 0]
        ELSE [whole |-> nn \div dd, millionths |-> frac]

PriceOf(price) ==
    [whole |-> price \div 1000000, millionths |-> price % 1000000]

C18_PriceIsAmountRatio ==
    \A k \in 1..Len(decoded) :
        LET t == decoded[k]
        IN  /\ (t.side = "BUY" /\ t.taker_amount > 0) =>
                PriceOf(t.price) = Ratio(t.maker_amount, t.taker_amount)
            /\ (t.side = "SELL" /\ t.maker_amount > 0) =>
                PriceOf(t.price) = Ratio(t.taker_amount, t.maker_amount)

C20_EnrichmentAttaches ==
    dpc \in {"store", "done"} =>
        \A k \in 1..Len(decoded) :
            LET t == decoded[k]
                hit == LookupMarket(t.token_id)
            IN  hit # <<>> =>
                    /\ "market_slug" \in DOMAIN t
                    /\ t.market_slug = hit[1].slug
                    /\ t.condition_id = hit[1].condition_id
                    /\ t.outcome = IF t.token_id = hit[1].yes_token_id
                                   THEN "YES" ELSE "NO"

(* C21: enrichment never blocks ingestion: enrich_with_market_info returns *)
(* the trades it was given, as many and in the same order, each with every *)
(* field it had, whether the lookup matches, finds no market or raises; a  *)
(* trade whose token has no market keeps its token_id and gets no market   *)
(* field.                                                                  *)
MarketFields == {"market_slug", "condition_id", "outcome"}

C21_EnrichmentKeepsTrades ==
    [][EnrichDecoded =>
        /\ Len(decoded') = Len(decoded)
        /\ \A k \in 1..Len(decoded) :
            /\ \A f \in DOMAIN decoded[k] :
                   f \in DOMAIN decoded'[k] /\ decoded'[k][f] = decoded[k][f]
            /\ LookupMarket(decoded[k].token_id) = <<>> =>
                   DOMAIN decoded'[k] \cap MarketFields = {}]_vars

(* C21 witness: a batch of two trades has been enriched, one whose token   *)
(* is a known market's and one whose token is no market's.                 *)
C21_Witness ==
    /\ dpc = "store"
    /\ Len(decoded) = 2
    /\ \E k \in 1..2 : LookupMarket(decoded[k].token_id) # <<>>
    /\ \E k \in 1..2 : LookupMarket(decoded[k].token_id) = <<>>

(* C23: every Trade produced while processing a batch comes from a log     *)
(* emitted by one of the two tracked exchanges that carries the tracked    *)
(* event signature as topics[0]; a log of a tracked exchange with another  *)
(* topics[0] never becomes a Trade.  The receipt is one of a transaction   *)
(* fetch_order_filled_logs returned a log of.                              *)
Tracked(log) == log.address \in Exchanges /\ log.topics[1] = event_topic

FetchedReceipt == \E i \in 1..Len(tx_receipt) : Tracked(tx_receipt[i])

C23_TradesFromTrackedLogs ==
    FetchedReceipt =>
        \A k \in 1..Len(decoded) : Tracked(tx_receipt[decoded[k].log_index + 1])

(* C24: the trailing fee field is optional: a Trade decoded from a payload *)
(* that holds the fee field has that field's value as fee, and one decoded *)
(* from a payload that ends after taker_amount has fee 0.                  *)
C24_FeeOptional ==
    \A k \in 1..Len(decoded) :
        LET log == tx_receipt[decoded[k].log_index + 1]
        IN  /\ ~log.truncated => decoded[k].fee = log.fields.fee
            /\ PyLen(log.data) = 338 => decoded[k].fee = 0

(* C26: after every committed batch the total-trades counter of the        *)
(* checkpoint is the total persisted before the run plus the number of     *)
(* trades the run has stored so far; it is never derived from a block      *)
(* number.                                                                 *)
PersistedTotalBeforeRun ==
    LET before == batches[1].checkpoint_before
    IN  IF before = NoRow THEN 0 ELSE before.total_events

StoredByRun == Len(events) - rerun.rows_before

C26_TotalCountsTrades ==
    [][(UpdateCheckpoint /\ sync_state' # sync_state) =>
        sync_state'.total_events = PersistedTotalBeforeRun + StoredByRun]_vars

(* C27: a bounded run without failures over [from_block, to_block] with    *)
(* from_block <= to_block passes every block of the interval, to_block and *)
(* the single block of [b, b] included, to fetch_order_filled_logs in      *)
(* exactly one range.                                                      *)
RangesHolding(b) ==
    { i \in 1..NBatches : batches[i].from <= b /\ b <= batches[i].to }

C27_BoundedRunCoversInterval ==
    ( /\ proc = "exit0"
      /\ result.status = "success"
      /\ ~args.continuous
      /\ args.from_block # None
      /\ args.to_block # None
      /\ args.from_block <= args.to_block
      /\ \A i \in 1..NBatches : ~Failed(batches[i]) ) =>
        \A b \in args.from_block..args.to_block :
            Cardinality(RangesHolding(b)) = 1

(* C28: trades_inserted of the run summary is the number of distinct new   *)
(* trade rows the run added to the store: a trade is counted once even     *)
(* when several fetched logs of a batch belong to one transaction, and a   *)
(* trade ignored as a duplicate or failed on insert is not counted.        *)
NewRows == { r \in 1..Len(events) : r > rerun.rows_before }

DistinctNewTrades ==
    { <<events[r].tx_hash, events[r].log_index>> : r \in NewRows }

C29_IndexConsistent ==
    \A c \in ClientIds, target \in Targets :
        /\ c \in Subscribers(FullChannel("trades", target)) <=>
              /\ c \in DOMAIN clients
              /\ FullChannel("trades", target) \in clients[c].subscriptions
        /\ get_subscribers("trades", target) \subseteq DOMAIN clients

(* C30: under every interleaving of a client's connect, subscribe,         *)
(* unsubscribe and disconnect handlers, every client id held in a channel, *)
(* market or trader subscription set is a connected client, and once the   *)
(* disconnect of a client has been handled no broadcast is addressed to    *)
(* that client.                                                            *)
Subscribed ==
    UNION ( { subscriptions[ch] : ch \in DOMAIN subscriptions }
            \cup { market_subscriptions[m] : m \in DOMAIN market_subscriptions }
            \cup { trader_subscriptions[a] : a \in DOMAIN trader_subscriptions } )

DisconnectHandled ==
    { sid \in ClientIds :
        /\ sessions[sid] = "closed"
        /\ \A h \in handlers : ~(h.event = "disconnect" /\ h.sid = sid) }

C30_OnlyConnectedSubscribed ==
    /\ [](Subscribed \subseteq connected_clients)
    /\ [][broadcast_trade => emitted' \cap DisconnectHandled = {}]_vars

(* C25: in-memory cache coherence: get(k) returns v exactly when the most  *)
(* recent set(k, v) has not reached its TTL and has not been followed by   *)
(* delete(k) or a flush of the entry, and returns None otherwise, in       *)
(* particular after delete(k); after any sequence of set, get and delete   *)
(* on any keys.                                                            *)
Expected(key) ==
    IF key \notin DOMAIN last_set THEN None
    ELSE IF last_set[key].removed \/ last_set[key].expires_at <= now THEN None
    ELSE last_set[key].value

C22_YesDiffersFromNo ==
    /\ \A i \in 1..Len(positions) :
            ~positions[i].out.raised =>
                positions[i].out.position_yes # positions[i].out.position_no
    /\ \A i \in 1..Len(market_params) :
            market_params[i].out.yes_token_id # market_params[i].out.no_token_id

====
